---- MODULE Spec2Model ----
(***************************************************************************)
(* A model of confirmed_fraud.py: the amount parser (clean_fraud_amount),  *)
(* the loader (load_and_clean_data), the aggregator (aggregate_fraud_data),*)
(* the drill-down controller (FraudVisualization) and the entry point      *)
(* (main).                                                                 *)
(*                                                                         *)
(* Strings are sequences of one-character strings.  Labels (agencies and   *)
(* programs) are positive naturals ordered as pandas orders the label      *)
(* strings; 0 stands for a missing (NaN) cell.  Amounts are integers: the  *)
(* digit strings of the model stay far below 2^53, where float arithmetic  *)
(* on integers is exact.  Figures are identified by the order of their     *)
(* creation (object identity), not by pyplot's reusable figure numbers.    *)
(***************************************************************************)
EXTENDS Integers, Sequences, FiniteSets, TLC

VARIABLES
    amount,           \* clean_fraud_amount: the raw string under conversion
    cleaned,          \* clean_fraud_amount: its outcome (Pending before the call)
    file,             \* main: the CSV at file_path
    df,               \* the cleaned table (rows Agency, Program, Fraud)
    fraud_by_agency,  \* FraudVisualization.fraud_by_agency
    fraud_by_program, \* FraudVisualization.fraud_by_program
    current_figure,   \* FraudVisualization.current_figure (None = 0)
    program_figure,   \* FraudVisualization.program_figure (None = 0)
    figures,          \* pyplot's registry: open figure id -> its chart
    created,          \* number of Figure objects created so far
    event,            \* the pointer-press event the canvas dispatched last
    pc,               \* position of the run
    printed,          \* what main printed (NoOutput if nothing)
    raised            \* the exception raised inside main's try (NoException if none)

vars == <<amount, cleaned, file, df, fraud_by_agency, fraud_by_program,
          current_figure, program_figure, figures, created, event, pc, printed, raised>>

(***************************************************************************)
(* Bounds of the model.                                                    *)
(***************************************************************************)
MaxLen == 3        \* longest raw amount string given to clean_fraud_amount
MaxRows == 3       \* most rows of a table given to aggregate_fraud_data
MaxPrograms == 11  \* most programs of one agency in a controller's table
MaxFigures == 3    \* most Figure objects created in one run
MaxFileRows == 2   \* most rows of a CSV given to main

(***************************************************************************)
(* Program constants.                                                      *)
(***************************************************************************)
AMOUNT_SCALE == 1000000
N_AGENCIES == 10
N_PROGRAMS == 10

None == 0
NULL == 0

(***************************************************************************)
(* Amount Parser.                                                          *)
(***************************************************************************)
Digits == {"0", "1"}
Chars == {"$", ",", "-", "n", "a"} \cup Digits

Strings(n) == UNION {[1..k -> Chars] : k \in 0..n}

DigitValue(c) == IF c = "1" THEN 1 ELSE 0

Num(v) == [tag |-> "num", val |-> v]
NaN == [tag |-> "nan", val |-> 0]
ValueError == [tag |-> "ValueError", val |-> 0]
AttributeError == [tag |-> "AttributeError", val |-> 0]
Pending == [tag |-> "pending", val |-> 0]

\* str.replace(old, new) for a one-character old
RECURSIVE replace(_, _, _)
replace(s, old, new) ==
    IF s = <<>> THEN <<>>
    ELSE (IF Head(s) = old THEN new ELSE <<Head(s)>>) \o replace(Tail(s), old, new)

RECURSIVE DecimalValue(_)
DecimalValue(s) ==
    IF s = <<>> THEN 0
    ELSE 10 * DecimalValue(SubSeq(s, 1, Len(s) - 1)) + DigitValue(s[Len(s)])

\* float(str) on the characters of the model: a digit string is its decimal
\* value, "nan" is the float NaN, anything else (the empty string too)
\* raises ValueError
float(s) ==
    IF s # <<>> /\ \A i \in 1..Len(s) : s[i] \in Digits THEN Num(DecimalValue(s))
    ELSE IF s = <<"n", "a", "n">> THEN NaN
    ELSE ValueError

\* a parser that forgets the thousands separators
clean_fraud_amount_keeps_commas(a) ==
    LET f == float(replace(replace(a, "$", <<>>), "-", <<"0">>))
    IN  IF f.tag = "num" THEN Num(f.val * AMOUNT_SCALE) ELSE f

clean_fraud_amount(a) ==
    LET f == float(replace(replace(replace(a, "$", <<>>), ",", <<>>), "-", <<"0">>))
    IN  IF f.tag = "num" THEN Num(f.val * AMOUNT_SCALE) ELSE f

(***************************************************************************)
(* The parser on its own: any raw string, one call.                        *)
(***************************************************************************)
NoFile == [kind |-> "none", rows |-> <<>>]
NoFigures == [f \in {} |-> 0]
NoEvent == [canvas |-> 0, inaxes |-> FALSE, x |-> 0, y |-> 0]
NoOutput == <<>>
NoException == "NoException"

Idle ==
    /\ file = NoFile
    /\ df = <<>>
    /\ fraud_by_agency = <<>>
    /\ fraud_by_program = <<>>
    /\ current_figure = None
    /\ program_figure = None
    /\ figures = NoFigures
    /\ created = 0
    /\ event = NoEvent
    /\ printed = NoOutput
    /\ raised = NoException

InitParse ==
    /\ amount \in Strings(MaxLen)
    /\ cleaned = Pending
    /\ pc = "parse"
    /\ Idle

Clean ==
    /\ pc = "parse"
    /\ cleaned = Pending
    /\ cleaned' = clean_fraud_amount(amount)
    /\ pc' = "parsed"
    /\ UNCHANGED <<amount, file, df, fraud_by_agency, fraud_by_program,
                   current_figure, program_figure, figures, created, event, printed, raised>>

NextParse == Clean

SpecParse == InitParse /\ [][NextParse]_vars

(***************************************************************************)
(* Aggregator.  A row of the cleaned table is [Agency, Program, Fraud];    *)
(* Program stands for the column "Program or Activity" and Fraud for       *)
(* "Confirmed Fraud".                                                      *)
(***************************************************************************)
Min(a, b) == IF a <= b THEN a ELSE b

Range(s) == {s[i] : i \in 1..Len(s)}

\* DataFrame.head(n)
head(s, n) == SubSeq(s, 1, Min(n, Len(s)))

\* Series.sum() of the column "Confirmed Fraud"
RECURSIVE sum(_)
sum(rows) == IF rows = <<>> THEN 0 ELSE Head(rows).Fraud + sum(Tail(rows))

\* group keys in the order groupby(sort=True) yields them
RECURSIVE SortedLabels(_)
SortedLabels(S) ==
    IF S = {} THEN <<>>
    ELSE LET m == CHOOSE x \in S : \A y \in S : x <= y
         IN  <<m>> \o SortedLabels(S \ {m})

PairBefore(p, q) == p[1] < q[1] \/ (p[1] = q[1] /\ p[2] <= q[2])

RECURSIVE SortedPairs(_)
SortedPairs(S) ==
    IF S = {} THEN <<>>
    ELSE LET m == CHOOSE p \in S : \A q \in S : PairBefore(p, q)
         IN  <<m>> \o SortedPairs(S \ {m})

\* a grouping that takes the first amount of each group instead of their sum
groupby_agency_first(t) ==
    LET keys == SortedLabels({t[i].Agency : i \in 1..Len(t)} \ {NULL})
    IN  [k \in 1..Len(keys) |->
            LET InGroup(r) == r.Agency = keys[k]
            IN  [Agency |-> keys[k], Fraud |-> Head(SelectSeq(t, InGroup)).Fraud]]

\* df.groupby("Agency", observed=True)["Confirmed Fraud"].sum(): one row per
\* agency label; dropna=True (the default) leaves out rows without a label
groupby_agency(t) ==
    LET keys == SortedLabels({t[i].Agency : i \in 1..Len(t)} \ {NULL})
    IN  [k \in 1..Len(keys) |->
            LET InGroup(r) == r.Agency = keys[k]
            IN  [Agency |-> keys[k], Fraud |-> sum(SelectSeq(t, InGroup))]]

\* df.groupby(["Agency", "Program or Activity"], observed=True)[...].sum():
\* a row missing either label is left out
groupby_agency_program(t) ==
    LET keys == SortedPairs({p \in {<<t[i].Agency, t[i].Program>> : i \in 1..Len(t)} :
                                p[1] # NULL /\ p[2] # NULL})
    IN  [k \in 1..Len(keys) |->
            LET InGroup(r) == r.Agency = keys[k][1] /\ r.Program = keys[k][2]
            IN  [Agency |-> keys[k][1], Program |-> keys[k][2],
                 Fraud |-> sum(SelectSeq(t, InGroup))]]

\* a sort that forgets ascending=False
RECURSIVE sort_values_ascending(_)
sort_values_ascending(rows) ==
    IF rows = <<>> THEN <<>>
    ELSE LET rest == sort_values_ascending(SubSeq(rows, 1, Len(rows) - 1))
             r == rows[Len(rows)]
             k == Cardinality({i \in 1..Len(rest) : rest[i].Fraud <= r.Fraud})
         IN  SubSeq(rest, 1, k) \o <<r>> \o SubSeq(rest, k + 1, Len(rest))

\* sort_values("Confirmed Fraud", ascending=False): on the short tables of the
\* model numpy's sort is an insertion sort, so equal amounts keep their order
RECURSIVE sort_values(_)
sort_values(rows) ==
    IF rows = <<>> THEN <<>>
    ELSE LET rest == sort_values(SubSeq(rows, 1, Len(rows) - 1))
             r == rows[Len(rows)]
             k == Cardinality({i \in 1..Len(rest) : rest[i].Fraud >= r.Fraud})
         IN  SubSeq(rest, 1, k) \o <<r>> \o SubSeq(rest, k + 1, Len(rest))

fraud_by_agency_of(t) == sort_values(groupby_agency(t))

aggregate_fraud_data(t) == <<fraud_by_agency_of(t), groupby_agency_program(t)>>

(***************************************************************************)
(* The aggregator on its own: any small cleaned table, one call.           *)
(***************************************************************************)
Agencies == 1..3
Programs == 1..2
Amounts == {AMOUNT_SCALE, 2 * AMOUNT_SCALE}

Rows == [Agency : Agencies \cup {NULL}, Program : Programs \cup {NULL}, Fraud : Amounts]

Tables(n) == UNION {[1..k -> Rows] : k \in 0..n}

InitAgg ==
    /\ df \in Tables(MaxRows)
    /\ pc = "aggregate"
    /\ amount = <<>>
    /\ cleaned = Pending
    /\ file = NoFile
    /\ fraud_by_agency = <<>>
    /\ fraud_by_program = <<>>
    /\ current_figure = None
    /\ program_figure = None
    /\ figures = NoFigures
    /\ created = 0
    /\ event = NoEvent
    /\ printed = NoOutput
    /\ raised = NoException

Aggregate ==
    /\ pc = "aggregate"
    /\ fraud_by_agency' = aggregate_fraud_data(df)[1]
    /\ fraud_by_program' = aggregate_fraud_data(df)[2]
    /\ pc' = "aggregated"
    /\ UNCHANGED <<amount, cleaned, file, df, current_figure, program_figure,
                   figures, created, event, printed, raised>>

NextAgg == Aggregate

SpecAgg == InitAgg /\ [][NextAgg]_vars

(***************************************************************************)
(* Visualization Controller.  A chart is what one figure displays: the     *)
(* rows seaborn drew as bars (one bar and one y tick label per row, in row *)
(* order), whether on_bar_click is connected to its canvas, and whether    *)
(* plt.show() has put it on the screen.                                    *)
(***************************************************************************)
Chart(kind, data, agency, handler) ==
    [kind |-> kind, data |-> data, agency |-> agency,
     handler |-> handler, shown |-> FALSE]

\* a horizontal bar on the pixel grid: bar i lies on row 2i - 1 (the even
\* rows are the gaps between bars) and covers the columns 1..extent; on the
\* logarithmic axis a zero amount has no extent
Extent(w) == IF w = 0 THEN 0 ELSE IF w <= AMOUNT_SCALE THEN 1 ELSE 2

patches(chart) ==
    [i \in 1..Len(chart.data) |-> [row |-> 2 * i - 1, extent |-> Extent(chart.data[i].Fraud)]]

yticklabels(chart) ==
    [i \in 1..Len(chart.data) |->
        IF chart.kind = "agencies" THEN chart.data[i].Agency ELSE chart.data[i].Program]

\* bar.contains(event)[0]
contains(bar, e) == e.y = bar.row /\ 1 <= e.x /\ e.x <= bar.extent

\* plt.close(fig): closing a figure that is not open does nothing
close(figs, fig) == [f \in DOMAIN figs \ {fig} |-> figs[f]]

\* plt.show(): every open figure is on the screen
show(figs) == [f \in DOMAIN figs |-> [figs[f] EXCEPT !.shown = TRUE]]

\* the controller's mutable state together with pyplot's
Controller == [current_figure |-> current_figure, program_figure |-> program_figure,
               figures |-> figures, created |-> created]

plot_top_agencies(c, n_agencies) ==
    LET fig == c.created + 1
    IN  [c EXCEPT !.current_figure = fig,
                  !.created = fig,
                  !.figures = c.figures @@
                      (fig :> Chart("agencies", head(fraud_by_agency, n_agencies), NULL, TRUE))]

\* a drill-down that never closes the Detail figure it holds
plot_agency_programs_keeps_old(c, agency, n_programs) ==
    LET OfAgency(r) == r.Agency = agency
        agency_programs == head(sort_values(SelectSeq(fraud_by_program, OfAgency)), n_programs)
        fig == c.created + 1
    IN  [c EXCEPT !.program_figure = fig,
                  !.created = fig,
                  !.figures = show(c.figures @@
                      (fig :> Chart("programs", agency_programs, agency, FALSE)))]

\* a drill-down that forgets head(n_programs)
plot_agency_programs_no_head(c, agency, n_programs) ==
    LET OfAgency(r) == r.Agency = agency
        agency_programs == sort_values(SelectSeq(fraud_by_program, OfAgency))
        kept == IF c.program_figure # None THEN close(c.figures, c.program_figure)
                ELSE c.figures
        fig == c.created + 1
    IN  [c EXCEPT !.program_figure = fig,
                  !.created = fig,
                  !.figures = show(kept @@ (fig :> Chart("programs", agency_programs, agency, FALSE)))]

plot_agency_programs(c, agency, n_programs) ==
    LET OfAgency(r) == r.Agency = agency
        agency_programs == head(sort_values(SelectSeq(fraud_by_program, OfAgency)), n_programs)
        kept == IF c.program_figure # None THEN close(c.figures, c.program_figure)
                ELSE c.figures
        fig == c.created + 1
    IN  [c EXCEPT !.program_figure = fig,
                  !.created = fig,
                  !.figures = show(kept @@ (fig :> Chart("programs", agency_programs, agency, FALSE)))]

\* the bars of the clicked axes that contain the event, in drawing order
Hits(c, e) ==
    IF e.canvas \in DOMAIN c.figures
    THEN {i \in 1..Len(c.figures[e.canvas].data) : contains(patches(c.figures[e.canvas])[i], e)}
    ELSE {}

\* a handler that drills into the first bar when the press is on no bar
on_bar_click_first_bar(c, e) ==
    IF ~e.inaxes THEN c
    ELSE IF Len(c.figures[e.canvas].data) = 0 THEN c
    ELSE LET i == IF Hits(c, e) = {} THEN 1
                  ELSE CHOOSE h \in Hits(c, e) : \A k \in Hits(c, e) : h <= k
         IN  plot_agency_programs(c, yticklabels(c.figures[e.canvas])[i], N_PROGRAMS)

on_bar_click(c, e) ==
    IF ~e.inaxes THEN c
    ELSE IF Hits(c, e) = {} THEN c
    ELSE LET i == CHOOSE h \in Hits(c, e) : \A k \in Hits(c, e) : h <= k
         IN  plot_agency_programs(c, yticklabels(c.figures[e.canvas])[i], N_PROGRAMS)

\* the pointer presses a canvas can dispatch: outside the axes, or at a pixel
\* of the axes
Events(f) ==
    {[canvas |-> f, inaxes |-> FALSE, x |-> 0, y |-> 0]} \cup
    {[canvas |-> f, inaxes |-> TRUE, x |-> px, y |-> py] :
        px \in 1..3, py \in 0..(2 * Len(figures[f].data))}

Assign(c) ==
    /\ current_figure' = c.current_figure
    /\ program_figure' = c.program_figure
    /\ figures' = c.figures
    /\ created' = c.created

Interactive == pc \in {"ready", "show"}

PlotTopAgencies ==
    /\ pc = "ready"
    /\ created < MaxFigures
    /\ Assign(plot_top_agencies(Controller, N_AGENCIES))
    /\ event' = NoEvent
    /\ UNCHANGED <<amount, cleaned, file, df, fraud_by_agency, fraud_by_program, pc, printed, raised>>

PlotAgencyPrograms(agency) ==
    /\ pc = "ready"
    /\ created < MaxFigures
    /\ Assign(plot_agency_programs(Controller, agency, N_PROGRAMS))
    /\ event' = NoEvent
    /\ UNCHANGED <<amount, cleaned, file, df, fraud_by_agency, fraud_by_program, pc, printed, raised>>

\* the canvas of a displayed Overview chart dispatches a pointer press
Click(f, e) ==
    /\ Interactive
    /\ f \in DOMAIN figures
    /\ figures[f].shown
    /\ figures[f].handler
    /\ e \in Events(f)
    /\ on_bar_click(Controller, e).created <= MaxFigures
    /\ Assign(on_bar_click(Controller, e))
    /\ event' = e
    /\ UNCHANGED <<amount, cleaned, file, df, fraud_by_agency, fraud_by_program, pc, printed, raised>>

\* the user closes the window of a displayed figure
CloseWindow(f) ==
    /\ Interactive
    /\ f \in DOMAIN figures
    /\ figures[f].shown
    /\ figures' = close(figures, f)
    /\ event' = NoEvent
    /\ UNCHANGED <<amount, cleaned, file, df, fraud_by_agency, fraud_by_program,
                   current_figure, program_figure, created, pc, printed, raised>>

\* plt.show() with the event loop already running: it returns at once
Show ==
    /\ pc = "ready"
    /\ figures' = show(figures)
    /\ event' = NoEvent
    /\ UNCHANGED <<amount, cleaned, file, df, fraud_by_agency, fraud_by_program,
                   current_figure, program_figure, created, pc, printed, raised>>

(***************************************************************************)
(* The controller on its own: constructed over a cleaned table, then any   *)
(* sequence of its operations, clicks and window closings.                 *)
(***************************************************************************)
Patterns == {"ascending", "descending", "flat", "zero"}

PatternAmount(pat, i, n) ==
    AMOUNT_SCALE * (CASE pat = "ascending" -> i
                      [] pat = "descending" -> n + 1 - i
                      [] pat = "flat" -> 1
                      [] OTHER -> 0)

\* agency 1 with nA programs whose amounts follow a pattern, then agency 2
\* with nB programs of 30 million each
Table(nA, nB, pat) ==
    [i \in 1..nA |-> [Agency |-> 1, Program |-> i, Fraud |-> PatternAmount(pat, i, nA)]]
    \o [j \in 1..nB |-> [Agency |-> 2, Program |-> j, Fraud |-> 30 * AMOUNT_SCALE]]

\* few programs, or as many as a Detail chart shows and more
ProgramCounts == (0..2) \cup (N_PROGRAMS..MaxPrograms)

ControllerTables ==
    {Table(nA, nB, pat) : nA \in ProgramCounts, nB \in 0..1, pat \in Patterns}

\* FraudVisualization.__init__
Init ==
    /\ df \in ControllerTables
    /\ fraud_by_agency = aggregate_fraud_data(df)[1]
    /\ fraud_by_program = aggregate_fraud_data(df)[2]
    /\ current_figure = None
    /\ program_figure = None
    /\ pc = "ready"
    /\ amount = <<>>
    /\ cleaned = Pending
    /\ file = NoFile
    /\ figures = NoFigures
    /\ created = 0
    /\ event = NoEvent
    /\ printed = NoOutput
    /\ raised = NoException

Next ==
    \/ PlotTopAgencies
    \/ \E agency \in 1..2 : PlotAgencyPrograms(agency)
    \/ Show
    \/ \E f \in DOMAIN figures : \E e \in Events(f) : Click(f, e)
    \/ \E f \in DOMAIN figures : CloseWindow(f)

Spec == Init /\ [][Next]_vars

(***************************************************************************)
(* Data Loader and entry point.  A file is missing, empty, or a CSV with a *)
(* header and rows; a header name is a sequence of tokens, " " being       *)
(* padding; an amount cell is a raw string, the empty string being an      *)
(* empty cell.                                                             *)
(***************************************************************************)
\* str.strip() of a header name
RECURSIVE lstrip(_)
lstrip(s) == IF s # <<>> /\ Head(s) = " " THEN lstrip(Tail(s)) ELSE s

RECURSIVE rstrip(_)
rstrip(s) == IF s # <<>> /\ s[Len(s)] = " " THEN rstrip(SubSeq(s, 1, Len(s) - 1)) ELSE s

strip(s) == lstrip(rstrip(s))

Columns(f) == {strip(f.columns[i]) : i \in 1..Len(f.columns)}

\* pd.read_csv infers the type of a column: with no cell that needs a string
\* (every cell empty or an integer literal) the column is numeric, and an
\* empty cell is the float NaN in any column
IsNumericCell(cell) == \A i \in 1..Len(cell) : cell[i] \in Digits

NumericColumn(rows) == \A i \in 1..Len(rows) : IsNumericCell(rows[i].Fraud)

\* what df["Confirmed Fraud"].apply(clean_fraud_amount) makes of one cell
CleanCell(rows, i) ==
    IF NumericColumn(rows) \/ rows[i].Fraud = <<>> THEN AttributeError
    ELSE clean_fraud_amount(rows[i].Fraud)

\* load_and_clean_data: the cleaned table, or the exception it raises
load_and_clean_data(f) ==
    IF f.kind = "missing" THEN [exc |-> "FileNotFoundError", df |-> <<>>]
    ELSE IF f.kind = "empty" THEN [exc |-> "ValueError", df |-> <<>>]
    ELSE IF <<"Confirmed Fraud">> \notin Columns(f) THEN [exc |-> "KeyError", df |-> <<>>]
    ELSE LET failed == {i \in 1..Len(f.rows) : CleanCell(f.rows, i).tag # "num"}
         IN  IF failed # {}
             THEN [exc |-> CleanCell(f.rows, CHOOSE i \in failed : \A k \in failed : i <= k).tag,
                   df |-> <<>>]
             ELSE [exc |-> NoException,
                   df |-> [i \in 1..Len(f.rows) |->
                             [Agency |-> f.rows[i].Agency, Program |-> f.rows[i].Program,
                              Fraud |-> CleanCell(f.rows, i).val]]]

\* main's handler: except Exception as e: print(...)
Message(exc) == <<"Error processing fraud data: ", exc>>

Cells == {<<>>, <<"-">>, <<"$", "1">>, <<"1">>, <<"n">>}

FileRows == [Agency : 1..2, Program : {1}, Fraud : Cells]

Headers ==
    {<< <<"Agency">>, <<"Program or Activity">>, <<"Confirmed Fraud">> >>,
     << <<" ", "Agency">>, <<"Program or Activity", " ">>, <<" ", "Confirmed Fraud", " ">> >>,
     << <<"Agency">>, <<"Program or Activity">> >>,
     << <<"Program or Activity">>, <<"Confirmed Fraud">> >>}

Files ==
    {[kind |-> "missing", columns |-> <<>>, rows |-> <<>>],
     [kind |-> "empty", columns |-> <<>>, rows |-> <<>>]}
    \cup {[kind |-> "csv", columns |-> h, rows |-> r] :
            h \in Headers, r \in UNION {[1..k -> FileRows] : k \in 0..MaxFileRows}}

InitMain ==
    /\ file \in Files
    /\ pc = "main"
    /\ df = <<>>
    /\ amount = <<>>
    /\ cleaned = Pending
    /\ fraud_by_agency = <<>>
    /\ fraud_by_program = <<>>
    /\ current_figure = None
    /\ program_figure = None
    /\ figures = NoFigures
    /\ created = 0
    /\ event = NoEvent
    /\ printed = NoOutput
    /\ raised = NoException

\* df = load_and_clean_data(file_path)
MainLoad ==
    /\ pc = "main"
    /\ LET r == load_and_clean_data(file)
       IN  IF r.exc # NoException
           THEN /\ raised' = r.exc
                /\ printed' = Message(r.exc)
                /\ pc' = "done"
                /\ df' = df
           ELSE /\ df' = r.df
                /\ pc' = "loaded"
                /\ UNCHANGED <<printed, raised>>
    /\ UNCHANGED <<amount, cleaned, file, fraud_by_agency, fraud_by_program,
                   current_figure, program_figure, figures, created, event>>

\* viz = FraudVisualization(df): groupby raises KeyError for a missing column
MainConstruct ==
    /\ pc = "loaded"
    /\ IF {<<"Agency">>, <<"Program or Activity">>} \subseteq Columns(file)
       THEN /\ fraud_by_agency' = aggregate_fraud_data(df)[1]
            /\ fraud_by_program' = aggregate_fraud_data(df)[2]
            /\ pc' = "constructed"
            /\ UNCHANGED <<printed, raised>>
       ELSE /\ raised' = "KeyError"
            /\ printed' = Message("KeyError")
            /\ pc' = "done"
            /\ UNCHANGED <<fraud_by_agency, fraud_by_program>>
    /\ UNCHANGED <<amount, cleaned, file, df, current_figure, program_figure,
                   figures, created, event>>

\* viz.plot_top_agencies()
MainPlotTopAgencies ==
    /\ pc = "constructed"
    /\ Assign(plot_top_agencies(Controller, N_AGENCIES))
    /\ pc' = "plotted"
    /\ UNCHANGED <<amount, cleaned, file, df, fraud_by_agency, fraud_by_program,
                   event, printed, raised>>

\* viz.plot_top_agencies() with plt.figure() raising (no display): nothing
\* has been created
MainFigureRaises ==
    /\ pc = "constructed"
    /\ raised' = "RuntimeError"
    /\ printed' = Message("RuntimeError")
    /\ pc' = "done"
    /\ UNCHANGED <<amount, cleaned, file, df, fraud_by_agency, fraud_by_program,
                   current_figure, program_figure, figures, created, event>>

\* viz.plot_top_agencies() with a call after plt.figure() raising (barplot,
\* the axis set-up, mpl_connect or tight_layout): the figure exists, empty
\* and not on the screen
MainChartSetupRaises ==
    /\ pc = "constructed"
    /\ current_figure' = created + 1
    /\ created' = created + 1
    /\ figures' = figures @@ ((created + 1) :> Chart("agencies", <<>>, NULL, FALSE))
    /\ raised' = "RuntimeError"
    /\ printed' = Message("RuntimeError")
    /\ pc' = "done"
    /\ UNCHANGED <<amount, cleaned, file, df, fraud_by_agency, fraud_by_program,
                   program_figure, event>>

\* plt.show(): the figures are displayed and the event loop runs
MainShow ==
    /\ pc = "plotted"
    /\ figures' = show(figures)
    /\ pc' = "show"
    /\ UNCHANGED <<amount, cleaned, file, df, fraud_by_agency, fraud_by_program,
                   current_figure, program_figure, created, event, printed, raised>>

\* plt.show() returns once every window is closed, and so does main
MainReturn ==
    /\ pc = "show"
    /\ DOMAIN figures = {}
    /\ pc' = "done"
    /\ event' = NoEvent
    /\ UNCHANGED <<amount, cleaned, file, df, fraud_by_agency, fraud_by_program,
                   current_figure, program_figure, figures, created, printed, raised>>

NextMain ==
    \/ MainLoad
    \/ MainConstruct
    \/ MainPlotTopAgencies
    \/ MainFigureRaises
    \/ MainChartSetupRaises
    \/ MainShow
    \/ \E f \in DOMAIN figures : \E e \in Events(f) : Click(f, e)
    \/ \E f \in DOMAIN figures : CloseWindow(f)
    \/ MainReturn

SpecMain == InitMain /\ [][NextMain]_vars

(***************************************************************************)
(* C4: every error surfaced during the run of main is caught at the        *)
(* outermost boundary: main prints a message, returns without propagating  *)
(* an exception, and no chart has been created or shown in that run.       *)
(***************************************************************************)
C4_ErrorsCaughtBeforeAnyChart ==
    raised # NoException =>
        /\ pc = "done"
        /\ printed = Message(raised)
        /\ created = 0
        /\ DOMAIN figures = {}

(***************************************************************************)
(* C1: at most one Detail chart is open at a time, however many clicks     *)
(* occurred: plot_agency_programs closes the Detail figure it holds before *)
(* it creates the next one.                                                *)
(***************************************************************************)
DetailFigures == {f \in DOMAIN figures : figures[f].kind = "programs"}
OverviewFigures == {f \in DOMAIN figures : figures[f].kind = "agencies"}

C1_AtMostOneDetail == Cardinality(DetailFigures) <= 1

\* a click on a bar has replaced an earlier Detail figure
C1_Witness ==
    /\ event.inaxes
    /\ Hits(Controller, event) # {}
    /\ program_figure >= 3
    /\ DetailFigures = {program_figure}

(***************************************************************************)
(* C2: a pointer press inside a bar of the Overview chart opens exactly    *)
(* one Detail chart; it holds only Category-Subcategory rows of the        *)
(* clicked bar's category, in descending order of amount, cut to at most   *)
(* 10 rows (all of them when the category has fewer).                      *)
(***************************************************************************)
C2_DetailOfClickedBar ==
    [][(event' # NoEvent /\ event'.inaxes
          /\ \E i \in 1..Len(figures[event'.canvas].data) :
                contains(patches(figures[event'.canvas])[i], event'))
        => LET bar == CHOOSE i \in 1..Len(figures[event'.canvas].data) :
                         /\ contains(patches(figures[event'.canvas])[i], event')
                         /\ \A k \in 1..(i - 1) :
                               ~contains(patches(figures[event'.canvas])[k], event')
               label == figures[event'.canvas].data[bar].Agency
               ofLabel == {r \in Range(fraud_by_program) : r.Agency = label}
               d == figures'[program_figure'].data
           IN  /\ DOMAIN figures' \ DOMAIN figures = {program_figure'}
               /\ figures'[program_figure'].kind = "programs"
               /\ \A k \in 1..Len(d) : d[k] \in ofLabel
               /\ \A k, l \in 1..Len(d) : k # l => d[k] # d[l]
               /\ \A k \in 1..(Len(d) - 1) : d[k].Fraud >= d[k + 1].Fraud
               /\ \A r \in ofLabel \ Range(d) : \A k \in 1..Len(d) : d[k].Fraud >= r.Fraud
               /\ Len(d) = Min(10, Cardinality(ofLabel))]_vars

\* the second bar was clicked and its category has 11 programs: 10 are shown
C2_Witness ==
    /\ event.inaxes
    /\ Hits(Controller, event) = {2}
    /\ program_figure \in DOMAIN figures
    /\ figures[program_figure].agency = figures[event.canvas].data[2].Agency
    /\ Len(figures[program_figure].data) = 10
    /\ Cardinality({r \in Range(fraud_by_program) :
                      r.Agency = figures[program_figure].agency}) = 11

(***************************************************************************)
(* C3: a pointer press outside all bars (outside any axes, or inside the   *)
(* axes but on no bar) changes nothing: the figure slots, the aggregates   *)
(* and the set of open figures stay as they were.                          *)
(***************************************************************************)
C3_MissIsNoOp ==
    [][(event' # NoEvent
          /\ (~event'.inaxes
                \/ \A i \in 1..Len(figures[event'.canvas].data) :
                      ~contains(patches(figures[event'.canvas])[i], event')))
        => UNCHANGED <<current_figure, program_figure, figures, created,
                       df, fraud_by_agency, fraud_by_program>>]_vars

\* a press inside the axes but on no bar, with a Detail chart open
C3_Witness ==
    /\ event # NoEvent
    /\ event.inaxes
    /\ Hits(Controller, event) = {}
    /\ program_figure \in DOMAIN figures
    /\ Len(figures[event.canvas].data) = 2

(***************************************************************************)
(* C10: after any sequence of controller operations the controller owns at *)
(* most one open Overview figure and at most one open Detail figure.       *)
(***************************************************************************)
C10_OneFigurePerSlot ==
    /\ Cardinality(OverviewFigures) <= 1
    /\ Cardinality(DetailFigures) <= 1

(***************************************************************************)
(* C5: for every cleaned table, the totals of the Category Aggregate sum   *)
(* to the sum of the cleaned amounts of all individual records.            *)
(***************************************************************************)
C5_Conservation ==
    pc = "aggregated" => sum(fraud_by_agency) = sum(df)

HasAgency(r) == r.Agency # NULL

\* C5 as amended: the totals sum to the amounts of all records that carry a
\* category label (groupby leaves out the rows whose Agency is missing).
C5_ConservationOfLabelled ==
    pc = "aggregated" => sum(fraud_by_agency) = sum(SelectSeq(df, HasAgency))

C5_Witness ==
    /\ pc = "aggregated"
    /\ Len(df) = 3
    /\ df[1].Agency = df[3].Agency
    /\ df[1].Agency # NULL
    /\ df[2].Agency = NULL
    /\ Len(fraud_by_agency) = 1
    /\ fraud_by_agency[1].Fraud = df[1].Fraud + df[3].Fraud

(***************************************************************************)
(* C6: for every category present in the cleaned table, its entries in the *)
(* Category-Subcategory Aggregate sum to its total in the Category         *)
(* Aggregate, and that aggregate holds exactly one entry per observed      *)
(* (category, subcategory) pair: no duplicates, no omissions.              *)
(***************************************************************************)
PresentAgencies == {df[i].Agency : i \in 1..Len(df)} \ {NULL}

ObservedPairs ==
    {<<df[i].Agency, df[i].Program>> : i \in {j \in 1..Len(df) : df[j].Agency # NULL}}

C6_SubtotalsMatch ==
    pc = "aggregated" =>
        /\ \A a \in PresentAgencies :
              LET OfAgency(r) == r.Agency = a
              IN  sum(SelectSeq(fraud_by_program, OfAgency))
                    = sum(SelectSeq(fraud_by_agency, OfAgency))
        /\ {<<fraud_by_program[i].Agency, fraud_by_program[i].Program>> :
               i \in 1..Len(fraud_by_program)} = ObservedPairs
        /\ Len(fraud_by_program) = Cardinality(ObservedPairs)

(***************************************************************************)
(* C7: the Category Aggregate has one entry per distinct category label    *)
(* and is ordered by non-increasing total.                                 *)
(***************************************************************************)
C7_SortedByTotal ==
    pc = "aggregated" =>
        /\ {fraud_by_agency[i].Agency : i \in 1..Len(fraud_by_agency)} = PresentAgencies
        /\ Len(fraud_by_agency) = Cardinality(PresentAgencies)
        /\ \A i \in 1..(Len(fraud_by_agency) - 1) :
              fraud_by_agency[i].Fraud >= fraud_by_agency[i + 1].Fraud

\* the scenario's shape: C has the largest total, A and B follow: [C, A, B]
C7_Witness ==
    /\ pc = "aggregated"
    /\ Len(fraud_by_agency) = 3
    /\ fraud_by_agency[1] = [Agency |-> 3, Fraud |-> 2 * AMOUNT_SCALE]
    /\ fraud_by_agency[2] = [Agency |-> 1, Fraud |-> AMOUNT_SCALE]
    /\ fraud_by_agency[3] = [Agency |-> 2, Fraud |-> AMOUNT_SCALE]

(***************************************************************************)
(* C8: for every raw amount string composed of a currency symbol,          *)
(* thousands separators and digits, clean_fraud_amount returns the numeric *)
(* literal (the digits, symbol and separators removed) times 1,000,000.    *)
(***************************************************************************)
RECURSIVE Pow10(_)
Pow10(n) == IF n = 0 THEN 1 ELSE 10 * Pow10(n - 1)

IsDigit(c) == c \in Digits

\* the decimal number the digits of s spell, read positionally
LiteralOf(s) ==
    LET d == SelectSeq(s, IsDigit)
        RECURSIVE Upto(_)
        Upto(i) == IF i = 0 THEN 0
                   ELSE Upto(i - 1) + DigitValue(d[i]) * Pow10(Len(d) - i)
    IN  Upto(Len(d))

CurrencyString(s) ==
    /\ \A i \in 1..Len(s) : s[i] \in {"$", ","} \cup Digits
    /\ \E i \in 1..Len(s) : s[i] \in Digits

C8_LiteralTimesMillion ==
    (pc = "parsed" /\ CurrencyString(amount))
        => cleaned = Num(LiteralOf(amount) * 1000000)

C8_Witness ==
    /\ pc = "parsed"
    /\ amount = <<"$", "1", ",">>
    /\ cleaned = Num(1000000)

(***************************************************************************)
(* C9: every amount clean_fraud_amount returns is non-negative (>= 0), for *)
(* every string it accepts, and a lone dash maps to exactly 0.             *)
(***************************************************************************)
C9_NonNegative ==
    /\ (pc = "parsed" /\ cleaned.tag # "ValueError")
          => (cleaned.tag = "num" /\ cleaned.val >= 0)
    /\ (pc = "parsed" /\ amount = <<"-">>) => cleaned = Num(0)

====
